---------------------------- MODULE Spec2Model ----------------------------
(***************************************************************************)
(* PipelineConfig of the FX market-risk pipeline (src/src/config_loader.py):*)
(* loading of the two YAML documents, _deep_merge, _validate and the       *)
(* accessors, as a state machine over one configuration directory and one  *)
(* PipelineConfig object.                                                  *)
(* Two notebook cells that use the object follow: generate_daily_positions *)
(* (notebooks/generate_positions.py) and the extraction loop               *)
(* (notebooks/extract_fx_rates.py).                                        *)
(*                                                                         *)
(* Python values are tagged records [kind, val]:                           *)
(*   dict  val = function from key strings to values                       *)
(*   list  val = sequence of values                                        *)
(*   str   val = string          num  val = integer        none            *)
(* Strings the code takes apart or assembles character by character (the   *)
(* environment argument, a dotted key path, an error message) are          *)
(* sequences of tokens; a token is a run of characters of the real string. *)
(***************************************************************************)
EXTENDS Integers, Sequences, FiniteSets, TLC

VARIABLES
    files,         \* config_dir: file name -> file state
    status,        \* "new" | "ready" | "failed" (object); "input" | "merged" (SpecMerge)
    environment,   \* self.environment
    base_config,   \* self._base_config
    env_config,    \* self._env_config
    config,        \* self._config
    call,          \* the last call made: operation, arguments, outcome
    notebook       \* the local variables of the notebook cell that is running

vars == <<files, status, environment, base_config, env_config, config, call, notebook>>

---------------------------------------------------------------------------
(* Python values *)

V(k, v) == [kind |-> k, val |-> v]

Dict(f) == V("dict", f)

List(s) == V("list", s)

Str(s) == V("str", s)

Num(n) == V("num", n)

None == V("none", "None")

\* An attribute not assigned yet.
Unset == V("unset", "unset")

EmptyDict == Dict(<<>>)

IsDict(x) == x.kind = "dict"

IsList(x) == x.kind = "list"

\* key in d, for a dict d
HasKey(d, k) == IsDict(d) /\ k \in DOMAIN d.val

\* result[key] = value on a dict's mapping
Put(f, k, v) == [x \in (DOMAIN f) \cup {k} |-> IF x = k THEN v ELSE f[x]]

\* del d[key] on a dict's mapping
Drop(f, k) == [x \in (DOMAIN f) \ {k} |-> f[x]]

\* Python truthiness of a parsed document (`config if config else {}`)
Truthy(x) ==
    CASE x.kind = "none" -> FALSE
      [] x.kind = "dict" -> DOMAIN x.val # {}
      [] x.kind = "list" -> Len(x.val) > 0
      [] x.kind = "str"  -> x.val # ""
      [] x.kind = "num"  -> x.val # 0
      [] OTHER -> TRUE

---------------------------------------------------------------------------
(* _deep_merge *)

RECURSIVE DeepMerge(_, _)
RECURSIVE MergeItems(_, _, _)

\* A merge that never recurses: dict.update.
MergeItemsShallow(result, override, keys) ==
    [k \in (DOMAIN result) \cup keys |-> IF k \in keys THEN override[k] ELSE result[k]]

\* A merge in which the base wins at a shared non-mapping key.
RECURSIVE MergeItemsBaseWins(_, _, _)
MergeItemsBaseWins(result, override, keys) ==
    IF keys = {} THEN result
    ELSE LET key == CHOOSE k \in keys : TRUE
             value == override[key]
             next == IF key \in DOMAIN result /\ IsDict(result[key]) /\ IsDict(value)
                     THEN Put(result, key, DeepMerge(result[key], value))
                     ELSE IF key \in DOMAIN result THEN result
                     ELSE Put(result, key, value)
         IN MergeItemsBaseWins(next, override, keys \ {key})

\* The loop `for key, value in override.items()` over the keys still to visit.
MergeItems(result, override, keys) ==
    IF keys = {} THEN result
    ELSE LET key == CHOOSE k \in keys : TRUE
             value == override[key]
             next == IF key \in DOMAIN result /\ IsDict(result[key]) /\ IsDict(value)
                     THEN Put(result, key, DeepMerge(result[key], value))
                     ELSE Put(result, key, value)
         IN MergeItems(next, override, keys \ {key})

\* A merge that starts from an empty result instead of a copy of base.
DeepMergeFromEmpty(base, override) ==
    Dict(MergeItems(<<>>, override.val, DOMAIN override.val))

\* _deep_merge(base, override) for two dicts.
DeepMerge(base, override) ==
    Dict(MergeItems(base.val, override.val, DOMAIN override.val))

---------------------------------------------------------------------------
(* Documents for the merge alone: every pair of documents that at most     *)
(* MaxEdits assignments `doc[k1]..[kn] = leaf` build from two empty ones.  *)
(* The base's scalars differ from the override's, so that the side a       *)
(* merged value came from shows.                                           *)

MaxEdits == 4

MergeKeys == {"a", "b"}

\* The places an assignment may write: three levels under "a", one under "b".
MergePaths ==
    {<<"a">>, <<"b">>, <<"a", "a">>, <<"a", "b">>, <<"a", "b", "a">>, <<"a", "b", "b">>}

BaseLeaves == {Num(1), List(<<Num(1)>>)}

OverrideLeaves == {Num(9), List(<<Num(9)>>)}

RECURSIVE SetPath(_, _, _)
\* doc[p[1]]...[p[n]] = v, creating the mappings on the way.
SetPath(doc, p, v) ==
    IF p = <<>> THEN v
    ELSE LET f == IF IsDict(doc) THEN doc.val ELSE <<>>
             sub == IF Head(p) \in DOMAIN f THEN f[Head(p)] ELSE EmptyDict
         IN Dict(Put(f, Head(p), SetPath(sub, Tail(p), v)))

\* One assignment to the base (doc 1) or the override (doc 2) document, or none.
MergeEdits ==
    {[doc |-> 0, path |-> <<>>, leaf |-> None]}
    \cup {[doc |-> 1, path |-> p, leaf |-> v] : p \in MergePaths, v \in BaseLeaves \cup {EmptyDict}}
    \cup {[doc |-> 2, path |-> p, leaf |-> v] : p \in MergePaths, v \in OverrideLeaves \cup {EmptyDict}}

ApplyMergeEdit(d, e) ==
    CASE e.doc = 1 -> <<SetPath(d[1], e.path, e.leaf), d[2]>>
      [] e.doc = 2 -> <<d[1], SetPath(d[2], e.path, e.leaf)>>
      [] OTHER -> d

RECURSIVE MergeInputs(_)
MergeInputs(n) ==
    IF n = 0 THEN {<<EmptyDict, EmptyDict>>}
    ELSE {ApplyMergeEdit(d, e) : d \in MergeInputs(n - 1), e \in MergeEdits}

NoFiles == <<>>

NoCall ==
    [op |-> "none", args |-> <<>>, raised |-> FALSE, value |-> None, exc |-> "", msg |-> <<>>]

\* No notebook cell is running.
NoNotebook == [pc |-> "none"]

InitMerge ==
    /\ files = NoFiles
    /\ status = "input"
    /\ environment = Unset
    /\ \E d \in MergeInputs(MaxEdits - 1), e \in MergeEdits :
          /\ base_config = ApplyMergeEdit(d, e)[1]
          /\ env_config = ApplyMergeEdit(d, e)[2]
    /\ config = Unset
    /\ call = NoCall
    /\ notebook = NoNotebook

\* self._config = self._deep_merge(self._base_config, self._env_config)
MergeStep ==
    /\ status = "input"
    /\ config' = DeepMerge(base_config, env_config)
    /\ status' = "merged"
    /\ UNCHANGED <<files, environment, base_config, env_config, call, notebook>>

NextMerge == MergeStep

SpecMerge == InitMerge /\ [][NextMerge]_vars

---------------------------------------------------------------------------
(* Strings as token sequences *)

RECURSIVE Join(_)
\* The string a token sequence spells.
Join(toks) == IF toks = <<>> THEN "" ELSE Head(toks) \o Join(Tail(toks))

Uppers == <<"A", "B", "C", "D", "E", "F", "G", "H", "I", "J", "K", "L", "M",
            "N", "O", "P", "Q", "R", "S", "T", "U", "V", "W", "X", "Y", "Z">>

Lowers == <<"a", "b", "c", "d", "e", "f", "g", "h", "i", "j", "k", "l", "m",
            "n", "o", "p", "q", "r", "s", "t", "u", "v", "w", "x", "y", "z">>

LowerChar(c) ==
    IF \E i \in DOMAIN Uppers : Uppers[i] = c
    THEN Lowers[CHOOSE i \in DOMAIN Uppers : Uppers[i] = c]
    ELSE c

\* str.lower(), one character per token
Lower(toks) == [i \in DOMAIN toks |-> LowerChar(toks[i])]

---------------------------------------------------------------------------
(* Outcomes of calls, exceptions and their messages *)

Ok(v) == [ok |-> TRUE, value |-> v, exc |-> "", msg |-> <<>>]

Err(e, m) == [ok |-> FALSE, value |-> None, exc |-> e, msg |-> m]

\* "Invalid environment: " and ". Must be 'dev' or 'prod'", character by character
InvalidEnvHead ==
    <<"I", "n", "v", "a", "l", "i", "d", " ", "e", "n", "v", "i", "r", "o", "n",
      "m", "e", "n", "t", ":", " ">>

InvalidEnvTail ==
    <<".", " ", "M", "u", "s", "t", " ", "b", "e", " ", "'", "d", "e", "v", "'",
      " ", "o", "r", " ", "'", "p", "r", "o", "d", "'">>

InvalidEnvMsg(env) == InvalidEnvHead \o env \o InvalidEnvTail

FileNotFoundMsg(filename) == <<"Configuration file not found: ", "config_dir/", filename>>

ParseErrorMsg(filename) == <<"Error parsing ", filename, ": ", "str(e)">>

\* '.'.join(path)
RECURSIVE DotJoin(_)
DotJoin(segs) ==
    IF segs = <<>> THEN <<>>
    ELSE IF Len(segs) = 1 THEN <<Head(segs)>>
    ELSE <<Head(segs), ".">> \o DotJoin(Tail(segs))

MissingMsg(path, field) ==
    <<"Missing required configuration: ">> \o DotJoin(path) \o <<".", field>>

NotAListMsg == <<"currencies.pairs must be a list">>

EmptyPairsMsg == <<"currencies.pairs cannot be empty">>

---------------------------------------------------------------------------
(* Python's `in` and subscript on a value *)

\* The strings around a field name in the string scalars of the documents.
StrAffixes == {"", "my_"}

\* needle in hay, for two strings
StrContains(hay, needle) ==
    \E pre \in StrAffixes, suf \in StrAffixes : hay = pre \o needle \o suf

\* key in x: "yes", "no", or "TypeError" when x is not iterable
PyIn(key, x) ==
    CASE x.kind = "dict" -> IF key \in DOMAIN x.val THEN "yes" ELSE "no"
      [] x.kind = "list" -> IF \E i \in DOMAIN x.val : x.val[i] = Str(key) THEN "yes" ELSE "no"
      [] x.kind = "str"  -> IF StrContains(x.val, key) THEN "yes" ELSE "no"
      [] OTHER -> "TypeError"

\* x[key], for a string key
PySubscript(x, key) ==
    IF x.kind = "dict"
    THEN IF key \in DOMAIN x.val THEN Ok(x.val[key]) ELSE Err("KeyError", <<key>>)
    ELSE Err("TypeError", <<>>)

---------------------------------------------------------------------------
(* _load_yaml *)

ConfigurationError == "ConfigurationError"

FileMissing == [st |-> "missing", doc |-> None]

FileInvalid == [st |-> "invalid", doc |-> None]

FileOf(d) == [st |-> "ok", doc |-> d]

LoadYaml(fs, filename) ==
    IF filename \notin DOMAIN fs \/ fs[filename].st = "missing"
    THEN Err(ConfigurationError, FileNotFoundMsg(filename))
    ELSE IF fs[filename].st = "invalid"
    THEN Err(ConfigurationError, ParseErrorMsg(filename))
    ELSE Ok(IF Truthy(fs[filename].doc) THEN fs[filename].doc ELSE EmptyDict)

\* _deep_merge as __init__ calls it, on whatever the two files parsed to.
MergeCall(base, override) ==
    IF base.kind \notin {"dict", "list"} THEN Err("AttributeError", <<"copy">>)
    ELSE IF override.kind # "dict" THEN Err("AttributeError", <<"items">>)
    ELSE IF base.kind = "list"
    THEN IF DOMAIN override.val = {} THEN Ok(base) ELSE Err("TypeError", <<>>)
    ELSE Ok(DeepMerge(base, override))

---------------------------------------------------------------------------
(* _validate *)

required_fields ==
    << <<"databricks", "catalog">>,
       <<"databricks", "schema">>,
       <<"storage", "base_path">>,
       <<"currencies", "pairs">>,
       <<"var_parameters", "confidence_level">> >>

RECURSIVE WalkPath(_, _, _, _)
\* `for key in path:` of one required field, from the k-th key on; then the
\* test of the field itself.
WalkPath(cfg, path, field, k) ==
    IF k > Len(path)
    THEN CASE PyIn(field, cfg) = "TypeError" -> Err("TypeError", <<>>)
           [] PyIn(field, cfg) = "no" -> Err(ConfigurationError, MissingMsg(path, field))
           [] OTHER -> Ok(None)
    ELSE CASE PyIn(path[k], cfg) = "TypeError" -> Err("TypeError", <<>>)
           [] PyIn(path[k], cfg) = "no" -> Err(ConfigurationError, MissingMsg(path, field))
           [] OTHER ->
                LET sub == PySubscript(cfg, path[k])
                IN IF sub.ok THEN WalkPath(sub.value, path, field, k + 1) ELSE sub

RECURSIVE CheckFields(_, _)
\* `for *path, field in required_fields:` from the i-th rule on
CheckFields(cfg, i) ==
    IF i > Len(required_fields) THEN Ok(None)
    ELSE LET rule == required_fields[i]
             r == WalkPath(cfg, SubSeq(rule, 1, Len(rule) - 1), rule[Len(rule)], 1)
         IN IF r.ok THEN CheckFields(cfg, i + 1) ELSE r

\* self._config['currencies']['pairs']
PairsOf(cfg) ==
    LET c == PySubscript(cfg, "currencies")
    IN IF c.ok THEN PySubscript(c.value, "pairs") ELSE c

\* len(x), -1 when x has no len()
PyLen(x) ==
    CASE x.kind = "list" -> Len(x.val)
      [] x.kind = "dict" -> Cardinality(DOMAIN x.val)
      [] x.kind = "str"  -> Len(x.val)
      [] OTHER -> -1

\* The two checks of currencies.pairs, emptiness first.
CheckPairsEmptyFirst(cfg) ==
    LET p == PairsOf(cfg)
    IN IF ~p.ok THEN p
       ELSE IF PyLen(p.value) = -1 THEN Err("TypeError", <<>>)
       ELSE IF PyLen(p.value) = 0 THEN Err(ConfigurationError, EmptyPairsMsg)
       ELSE IF ~IsList(p.value) THEN Err(ConfigurationError, NotAListMsg)
       ELSE Ok(None)

CheckPairs(cfg) ==
    LET p == PairsOf(cfg)
    IN IF ~p.ok THEN p
       ELSE IF ~IsList(p.value) THEN Err(ConfigurationError, NotAListMsg)
       ELSE IF Len(p.value.val) = 0 THEN Err(ConfigurationError, EmptyPairsMsg)
       ELSE Ok(None)

Validate(cfg) ==
    LET r == CheckFields(cfg, 1)
    IN IF r.ok THEN CheckPairs(cfg) ELSE r

---------------------------------------------------------------------------
(* __init__ *)

ValidEnvironments == {"dev", "prod"}

BaseFile == "pipeline_config.yaml"

\* What __init__ leaves behind: the attributes assigned before it returned
\* or raised, and the exception it raised (ok when it returned).
Built(env, base, envc, cfg, res) ==
    [environment |-> env, base_config |-> base, env_config |-> envc,
     config |-> cfg, result |-> res]

\* An __init__ that tests the environment as given, before lowering it.
InitObjectCaseSensitive(arg, fs) ==
    LET env == Join(Lower(arg))
        b == LoadYaml(fs, BaseFile)
        e == LoadYaml(fs, env \o ".yaml")
        m == MergeCall(b.value, e.value)
        v == Validate(m.value)
    IN IF Join(arg) \notin ValidEnvironments
       THEN Built(Str(env), Unset, Unset, Unset,
                  Err(ConfigurationError, InvalidEnvMsg(Lower(arg))))
       ELSE IF ~b.ok THEN Built(Str(env), Unset, Unset, Unset, b)
       ELSE IF ~e.ok THEN Built(Str(env), b.value, Unset, Unset, e)
       ELSE IF ~m.ok THEN Built(Str(env), b.value, e.value, Unset, m)
       ELSE Built(Str(env), b.value, e.value, m.value, v)

InitObject(arg, fs) ==
    LET env == Join(Lower(arg))
        b == LoadYaml(fs, BaseFile)
        e == LoadYaml(fs, env \o ".yaml")
        m == MergeCall(b.value, e.value)
        v == Validate(m.value)
    IN IF env \notin ValidEnvironments
       THEN Built(Str(env), Unset, Unset, Unset,
                  Err(ConfigurationError, InvalidEnvMsg(Lower(arg))))
       ELSE IF ~b.ok THEN Built(Str(env), Unset, Unset, Unset, b)
       ELSE IF ~e.ok THEN Built(Str(env), b.value, Unset, Unset, e)
       ELSE IF ~m.ok THEN Built(Str(env), b.value, e.value, Unset, m)
       ELSE Built(Str(env), b.value, e.value, m.value, v)

\* The record of a call: what was called, with what, and how it ended.
Called(op, args, res) ==
    [op |-> op, args |-> args, raised |-> ~res.ok, value |-> res.value,
     exc |-> res.exc, msg |-> res.msg]

---------------------------------------------------------------------------
(* Accessors *)

Digits == <<"0", "1", "2", "3", "4", "5", "6", "7", "8", "9">>

RECURSIVE NatStr(_)
NatStr(n) == IF n < 10 THEN Digits[n + 1] ELSE NatStr(n \div 10) \o Digits[(n % 10) + 1]

\* str(x) inside an f-string; a list or a dict is not spelled out.
Format(x) ==
    CASE x.kind = "str"  -> x.val
      [] x.kind = "num"  -> IF x.val < 0 THEN "-" \o NatStr(-x.val) ELSE NatStr(x.val)
      [] x.kind = "none" -> "None"
      [] x.kind = "list" -> "[...]"
      [] OTHER -> "{...}"

\* self._config[section][field], as the properties read it
Field(cfg, section, field) ==
    LET sec == PySubscript(cfg, section)
    IN IF sec.ok THEN PySubscript(sec.value, field) ELSE sec

\* self._config[k1]...[kn], as a property reads it
Property(cfg, path) ==
    LET RECURSIVE Walk(_, _)
        Walk(x, p) ==
            IF p = <<>> THEN Ok(x)
            ELSE LET s == PySubscript(x, Head(p))
                 IN IF s.ok THEN Walk(s.value, Tail(p)) ELSE s
    IN Walk(cfg, path)

\* The exception of the first of the reads that raises, if one does.
FirstRaised(results) ==
    IF \A k \in DOMAIN results : results[k].ok THEN Ok(None)
    ELSE results[CHOOSE k \in DOMAIN results :
                    ~results[k].ok /\ \A j \in 1..(k - 1) : results[j].ok]

\* The properties that return one value of the configuration.
Properties ==
    << [name |-> "catalog", path |-> <<"databricks", "catalog">>],
       [name |-> "schema", path |-> <<"databricks", "schema">>],
       [name |-> "username", path |-> <<"databricks", "username">>],
       [name |-> "base_path", path |-> <<"storage", "base_path">>],
       [name |-> "fx_rates_raw_path", path |-> <<"storage", "raw_data", "fx_rates">>],
       [name |-> "positions_raw_path", path |-> <<"storage", "raw_data", "positions">>],
       [name |-> "fx_rates_schema_path", path |-> <<"storage", "schemas", "fx_rates">>],
       [name |-> "positions_schema_path", path |-> <<"storage", "schemas", "positions">>],
       [name |-> "var_confidence_level", path |-> <<"var_parameters", "confidence_level">>],
       [name |-> "var_percentile_long", path |-> <<"var_parameters", "percentile_long">>],
       [name |-> "var_percentile_short", path |-> <<"var_parameters", "percentile_short">>],
       [name |-> "lookback_days", path |-> <<"var_parameters", "lookback_days">>],
       [name |-> "lookback_interval_days",
        path |-> <<"var_parameters", "lookback_interval_days">>],
       [name |-> "minimum_data_date", path |-> <<"var_parameters", "minimum_data_date">>],
       [name |-> "return_anomaly_threshold",
        path |-> <<"var_parameters", "return_anomaly_threshold">>],
       [name |-> "pipeline_name", path |-> <<"pipeline", "name">>],
       [name |-> "pipeline_timezone", path |-> <<"pipeline", "timezone">>],
       [name |-> "pipeline_version", path |-> <<"pipeline", "version">>],
       [name |-> "polygon_secret_scope", path |-> <<"api", "polygon", "secret_scope">>],
       [name |-> "polygon_secret_key", path |-> <<"api", "polygon", "secret_key">>],
       [name |-> "polygon_base_url", path |-> <<"api", "polygon", "base_url">>],
       [name |-> "desk_name", path |-> <<"position_generation", "desk">>],
       [name |-> "long_probability",
        path |-> <<"position_generation", "direction_bias", "long_probability">>],
       [name |-> "short_probability",
        path |-> <<"position_generation", "direction_bias", "short_probability">>],
       [name |-> "flat_probability", path |-> <<"position_generation", "flat_probability">>],
       [name |-> "position_max_deviation",
        path |-> <<"position_generation", "random_walk", "max_deviation">>] >>

\* f"{self.catalog}.{self.schema}"
FullyQualifiedSchema(cfg) ==
    LET catalog == Field(cfg, "databricks", "catalog")
        schema == Field(cfg, "databricks", "schema")
    IN IF ~catalog.ok THEN catalog
       ELSE IF ~schema.ok THEN schema
       ELSE Ok(Str(Format(catalog.value) \o "." \o Format(schema.value)))

\* The path that the property `name` reads.
PathOf(name) ==
    Properties[CHOOSE k \in DOMAIN Properties : Properties[k].name = name].path

\* config.<name>
GetProperty(cfg, name) ==
    IF name = "fully_qualified_schema" THEN FullyQualifiedSchema(cfg)
    ELSE Property(cfg, PathOf(name))

\* The entries of the dict of get_sql_parameters, in the order the dict
\* display evaluates them: from a property, or from self._config directly.
SqlParameters ==
    << [key |-> "catalog", property |-> "catalog"],
       [key |-> "schema", property |-> "schema"],
       [key |-> "fully_qualified_schema", property |-> "fully_qualified_schema"],
       [key |-> "fx_rates_raw_path", property |-> "fx_rates_raw_path"],
       [key |-> "positions_raw_path", property |-> "positions_raw_path"],
       [key |-> "fx_rates_schema_path", property |-> "fx_rates_schema_path"],
       [key |-> "positions_schema_path", property |-> "positions_schema_path"],
       [key |-> "confidence_level", property |-> "var_confidence_level"],
       [key |-> "percentile_long", property |-> "var_percentile_long"],
       [key |-> "percentile_short", property |-> "var_percentile_short"],
       [key |-> "lookback_days", property |-> "lookback_days"],
       [key |-> "lookback_interval_days", property |-> "lookback_interval_days"],
       [key |-> "minimum_data_date", property |-> "minimum_data_date"],
       [key |-> "return_anomaly_threshold", property |-> "return_anomaly_threshold"],
       [key |-> "bronze_fx_rates", path |-> <<"layers", "bronze", "fx_rates">>],
       [key |-> "bronze_positions", path |-> <<"layers", "bronze", "positions">>],
       [key |-> "silver_fx_rates", path |-> <<"layers", "silver", "fx_rates">>],
       [key |-> "silver_fx_rates_staging", path |-> <<"layers", "silver", "fx_rates_staging">>],
       [key |-> "silver_fx_returns", path |-> <<"layers", "silver", "fx_returns">>],
       [key |-> "silver_positions", path |-> <<"layers", "silver", "positions">>],
       [key |-> "gold_var", path |-> <<"layers", "gold", "var">>] >>

GetSqlParameters(cfg) ==
    LET values == [k \in DOMAIN SqlParameters |->
                     IF "property" \in DOMAIN SqlParameters[k]
                     THEN GetProperty(cfg, SqlParameters[k].property)
                     ELSE Property(cfg, SqlParameters[k].path)]
        raised == FirstRaised(values)
    IN IF ~raised.ok THEN raised
       ELSE Ok(Dict([key \in {SqlParameters[k].key : k \in DOMAIN SqlParameters} |->
                       values[CHOOSE k \in DOMAIN SqlParameters :
                                 SqlParameters[k].key = key].value]))

\* return self._config.copy()
ToDict(cfg) ==
    IF cfg.kind \in {"dict", "list"} THEN Ok(cfg) ELSE Err("AttributeError", <<"copy">>)

GetTableName(cfg, layer, table) ==
    LET layers == PySubscript(cfg, "layers")
        lay == PySubscript(layers.value, layer)
        table_name == PySubscript(lay.value, table)
        catalog == Field(cfg, "databricks", "catalog")
        schema == Field(cfg, "databricks", "schema")
    IN IF ~layers.ok THEN layers
       ELSE IF ~lay.ok THEN lay
       ELSE IF ~table_name.ok THEN table_name
       ELSE IF ~catalog.ok THEN catalog
       ELSE IF ~schema.ok THEN schema
       ELSE Ok(Str(Format(catalog.value) \o "." \o Format(schema.value)
                   \o "." \o Format(table_name.value)))

RECURSIVE SplitFrom(_, _)
\* key_path.split('.'): cur is the segment being read.
SplitFrom(toks, cur) ==
    IF toks = <<>> THEN <<cur>>
    ELSE IF Head(toks) = "." THEN <<cur>> \o SplitFrom(Tail(toks), "")
    ELSE SplitFrom(Tail(toks), cur \o Head(toks))

Split(toks) == SplitFrom(toks, "")

\* A loop of get that subscripts without testing for a mapping.
RECURSIVE GetLoopUnchecked(_, _, _)
GetLoopUnchecked(value, keys, default) ==
    IF keys = <<>> THEN Ok(value)
    ELSE LET sub == PySubscript(value, Head(keys))
         IN IF sub.ok THEN GetLoopUnchecked(sub.value, Tail(keys), default)
            ELSE IF sub.exc = "KeyError" THEN Ok(default)
            ELSE sub

RECURSIVE GetLoop(_, _, _)
\* `for key in keys:` of get
GetLoop(value, keys, default) ==
    IF keys = <<>> THEN Ok(value)
    ELSE IF IsDict(value) /\ Head(keys) \in DOMAIN value.val
    THEN GetLoop(value.val[Head(keys)], Tail(keys), default)
    ELSE Ok(default)

Get(cfg, key_path, default) == GetLoop(cfg, Split(key_path), default)

\* get_currency_pairs
GetCurrencyPairs(cfg) == Field(cfg, "currencies", "pairs")

\* A search that returns the last match instead of the first.
RECURSIVE FindPairLast(_, _, _)
FindPairLast(pairs, symbol, i) ==
    IF i > Len(pairs) THEN Ok(None)
    ELSE LET sym == PySubscript(pairs[i], "symbol")
             rest == FindPairLast(pairs, symbol, i + 1)
         IN IF ~sym.ok THEN sym
            ELSE IF sym.value = symbol /\ (~rest.ok \/ rest.value = None) THEN Ok(pairs[i])
            ELSE rest

RECURSIVE FindPair(_, _, _)
\* `for pair in self.get_currency_pairs():` of get_currency_pair, from the
\* i-th pair on
FindPair(pairs, symbol, i) ==
    IF i > Len(pairs) THEN Ok(None)
    ELSE LET sym == PySubscript(pairs[i], "symbol")
         IN IF ~sym.ok THEN sym
            ELSE IF sym.value = symbol THEN Ok(pairs[i])
            ELSE FindPair(pairs, symbol, i + 1)

GetCurrencyPair(cfg, symbol) ==
    LET pairs == GetCurrencyPairs(cfg)
    IN IF ~pairs.ok THEN pairs
       ELSE IF ~IsList(pairs.value) THEN Err("TypeError", <<>>)
       ELSE FindPair(pairs.value.val, symbol, 1)

RECURSIVE FieldsFrom(_, _, _, _)
\* [pair[field] for pair in pairs], from the i-th pair on
FieldsFrom(pairs, field, i, acc) ==
    IF i > Len(pairs) THEN Ok(List(acc))
    ELSE LET value == PySubscript(pairs[i], field)
         IN IF ~value.ok THEN value
            ELSE FieldsFrom(pairs, field, i + 1, Append(acc, value.value))

\* [pair[field] for pair in self.get_currency_pairs()]; validation leaves a
\* list at currencies.pairs.
CurrencyFields(cfg, field) ==
    LET pairs == GetCurrencyPairs(cfg)
    IN IF ~pairs.ok THEN pairs
       ELSE IF ~IsList(pairs.value) THEN Err("TypeError", <<>>)
       ELSE FieldsFrom(pairs.value.val, field, 1, <<>>)

GetCurrencySymbols(cfg) == CurrencyFields(cfg, "symbol")

GetCurrencyNames(cfg) == CurrencyFields(cfg, "name")

\* A dict as the comprehension builds it: its keys in insertion order, and
\* its mapping.
EmptyOrdered == [keys |-> <<>>, map |-> <<>>]

Hashable(x) == x.kind \notin {"dict", "list"}

\* d[key] = value that keeps the value a key already has.
StoreFirst(d, key, value) ==
    IF key \in DOMAIN d.map THEN d
    ELSE [keys |-> Append(d.keys, key), map |-> Put(d.map, key, value)]

\* d[key] = value
Store(d, key, value) ==
    [keys |-> IF key \in DOMAIN d.map THEN d.keys ELSE Append(d.keys, key),
     map |-> Put(d.map, key, value)]

RECURSIVE BasePositionsFrom(_, _, _)
\* The comprehension of get_base_positions, from the i-th pair on.
BasePositionsFrom(pairs, i, acc) ==
    IF i > Len(pairs) THEN Ok(V("odict", acc))
    ELSE LET name == PySubscript(pairs[i], "name")
             size == PySubscript(pairs[i], "base_position_size")
         IN IF ~name.ok THEN name
            ELSE IF ~size.ok THEN size
            ELSE IF ~Hashable(name.value) THEN Err("TypeError", <<>>)
            ELSE BasePositionsFrom(pairs, i + 1, Store(acc, name.value, size.value))

GetBasePositions(cfg) ==
    LET pairs == GetCurrencyPairs(cfg)
    IN IF ~pairs.ok THEN pairs
       ELSE IF ~IsList(pairs.value) THEN Err("TypeError", <<>>)
       ELSE BasePositionsFrom(pairs.value.val, 1, EmptyOrdered)

---------------------------------------------------------------------------
(* The configuration directories *)

MaxFaults == 2

MaxPairs == 2

MaxSegs == 3

Pair(symbol, name, size) ==
    Dict([symbol |-> Str(symbol), name |-> Str(name), base_position_size |-> Num(size)])

EURUSD == Pair("EURUSD", "EUR/USD", 15000000)

GBPUSD == Pair("GBPUSD", "GBP/USD", 8000000)

\* Elements of currencies.pairs: the two pairs, EUR/USD again with another
\* size, a pair with neither symbol nor name, and a bare string.
PairElements ==
    { EURUSD, GBPUSD,
      Pair("EURUSD", "EUR/USD", 1),
      Dict([base_position_size |-> Num(2)]),
      Str("EURUSD") }

PairLists == UNION {[1..n -> PairElements] : n \in 1..MaxPairs}

\* A complete configuration, as pipeline_config.yaml gives it.
Template ==
    Dict([databricks |-> Dict([catalog |-> Str("c"), schema |-> Str("s")]),
          storage |-> Dict([base_path |-> Str("/mnt")]),
          currencies |-> Dict([pairs |-> List(<<EURUSD, GBPUSD>>)]),
          var_parameters |-> Dict([confidence_level |-> Num(95)]),
          layers |-> Dict([silver |-> Dict([fx_rates |-> Str("fx_rates")])])])

Delete == V("delete", "delete")

RECURSIVE DelPath(_, _)
\* del doc[p[1]]...[p[n]], where the path exists
DelPath(doc, p) ==
    IF ~HasKey(doc, Head(p)) THEN doc
    ELSE IF Len(p) = 1 THEN Dict(Drop(doc.val, Head(p)))
    ELSE Dict(Put(doc.val, Head(p), DelPath(doc.val[Head(p)], Tail(p))))

\* What may be wrong with a section that must hold `field`.
SectionFaults(section, field) ==
    {[path |-> <<section>>, val |-> v] :
        v \in {Delete, None, Num(5), Str("my_" \o field), List(<<Str(field)>>), EmptyDict}}
    \cup {[path |-> <<section, field>>, val |-> Delete]}

Faults ==
    UNION {SectionFaults(required_fields[i][1], required_fields[i][2]) :
              i \in DOMAIN required_fields}
    \cup {[path |-> <<"currencies", "pairs">>, val |-> v] :
              v \in {None, Num(0), Str("EURUSD"), Str(""), EmptyDict,
                     Dict([EURUSD |-> Num(1)]), List(<<>>)}}
    \cup {[path |-> <<"layers">>, val |-> Delete],
          [path |-> <<"layers">>, val |-> Str("silver")],
          [path |-> <<"layers", "silver">>, val |-> Delete],
          [path |-> <<"layers", "silver", "fx_rates">>, val |-> Delete],
          [path |-> <<"layers", "silver", "fx_rates">>, val |-> Num(5)]}

ApplyFault(doc, f) ==
    IF f.val = Delete THEN DelPath(doc, f.path) ELSE SetPath(doc, f.path, f.val)

RECURSIVE Faulted(_)
\* The template with at most n faults.
Faulted(n) ==
    IF n = 0 THEN {Template}
    ELSE LET prev == Faulted(n - 1)
         IN prev \cup {ApplyFault(d, f) : d \in prev, f \in Faults}

\* The template with another list of pairs.
WithPairs(l) == SetPath(Template, <<"currencies", "pairs">>, List(l))

\* pipeline_config.yaml: absent, not YAML, empty, not a mapping, or a mapping.
BaseFiles ==
    {FileMissing, FileInvalid}
    \cup {FileOf(d) : d \in {None, EmptyDict, Num(5), Str("databricks"),
                           List(<<Str("databricks")>>), List(<<Str("x")>>)}}

\* dev.yaml: absent, not YAML, empty, not a mapping, or an override.
EnvFiles ==
    {FileMissing, FileInvalid}
    \cup {FileOf(d) : d \in
            { None, EmptyDict, Str("dev"), List(<<Str("databricks")>>), List(<<>>),
              Dict([databricks |-> Dict([catalog |-> Str("dev_c")])]),
              Dict([databricks |-> Str("my_catalog")]),
              Dict([storage |-> Str("my_base_path")]),
              Dict([currencies |-> Dict([pairs |-> List(<<>>)])]),
              Dict([currencies |-> Dict([pairs |-> List(<<GBPUSD>>)])]),
              Dict([layers |-> Dict([gold |-> Dict([var |-> Str("var")])])]) }}

ProdFile == FileOf(Dict([databricks |-> Dict([catalog |-> Str("prod_c")])]))

Directory(base, dev, prod) ==
    [n \in {BaseFile, "dev.yaml", "prod.yaml"} |->
        CASE n = BaseFile -> base
          [] n = "dev.yaml" -> dev
          [] OTHER -> prod]

\* The directories: a faulty base under an empty dev.yaml; every state of the
\* base file with at most one fault under every state of dev.yaml, with and
\* without prod.yaml; every list of pairs under an empty dev.yaml.
Directories ==
    {Directory(FileOf(d), FileOf(EmptyDict), FileMissing) : d \in Faulted(MaxFaults)}
    \cup {Directory(b, e, p) :
            b \in BaseFiles \cup {FileOf(d) : d \in Faulted(1)},
            e \in EnvFiles, p \in {ProdFile, FileMissing}}
    \cup {Directory(FileOf(WithPairs(l)), FileOf(EmptyDict), FileMissing) : l \in PairLists}

\* The environment argument, character by character.
EnvArgs ==
    { <<"d", "e", "v">>, <<"D", "E", "V">>, <<"p", "r", "o", "d">>, <<"P", "r", "o", "d">>,
      <<"s", "t", "a", "g", "i", "n", "g">>, <<"S", "t", "a", "g", "i", "n", "g">>,
      <<"d", "e">>, <<>> }

---------------------------------------------------------------------------
(* The object and the calls made on it *)

Init ==
    /\ files \in Directories
    /\ status = "new"
    /\ environment = Unset
    /\ base_config = Unset
    /\ env_config = Unset
    /\ config = Unset
    /\ call = NoCall
    /\ notebook = NoNotebook

\* PipelineConfig(environment=arg, config_dir=<the directory>)
Construct ==
    /\ status = "new"
    /\ \E arg \in EnvArgs :
        LET o == InitObject(arg, files)
        IN /\ environment' = o.environment
           /\ base_config' = o.base_config
           /\ env_config' = o.env_config
           /\ config' = o.config
           /\ status' = IF o.result.ok THEN "ready" ELSE "failed"
           /\ call' = Called("__init__", <<arg>>, o.result)
    /\ UNCHANGED <<files, notebook>>

LayerNames == {"silver", "gold"}

TableNames == {"fx_rates", "var"}

CallGetTableName ==
    /\ status = "ready"
    /\ \E layer \in LayerNames, table \in TableNames :
        call' = Called("get_table_name", <<layer, table>>, GetTableName(config, layer, table))
    /\ UNCHANGED <<files, status, environment, base_config, env_config, config, notebook>>

GetSegments == {"databricks", "catalog", ""}

\* The key paths: every dotted string of at most MaxSegs segments.
KeyPaths == {DotJoin(segs) : segs \in UNION {[1..n -> GetSegments] : n \in 1..MaxSegs}}

Defaults == {Str("dflt")}

\* A get that stores the default under a key path it does not find, as
\* dict.setdefault does.
CallGetStoringDefault ==
    /\ status = "ready"
    /\ \E key_path \in KeyPaths, default \in Defaults :
        /\ call' = Called("get", <<key_path, default>>, Get(config, key_path, default))
        /\ config' = IF Get(config, key_path, default).value = default
                     THEN SetPath(config, Split(key_path), default)
                     ELSE config
    /\ UNCHANGED <<files, status, environment, base_config, env_config, notebook>>

CallGet ==
    /\ status = "ready"
    /\ \E key_path \in KeyPaths, default \in Defaults :
        call' = Called("get", <<key_path, default>>, Get(config, key_path, default))
    /\ UNCHANGED <<files, status, environment, base_config, env_config, config, notebook>>

Symbols == {Str("EURUSD"), Str("GBPUSD"), Str("ZZZ")}

CallGetCurrencyPair ==
    /\ status = "ready"
    /\ \E symbol \in Symbols :
        call' = Called("get_currency_pair", <<symbol>>, GetCurrencyPair(config, symbol))
    /\ UNCHANGED <<files, status, environment, base_config, env_config, config, notebook>>

CallGetBasePositions ==
    /\ status = "ready"
    /\ call' = Called("get_base_positions", <<>>, GetBasePositions(config))
    /\ UNCHANGED <<files, status, environment, base_config, env_config, config, notebook>>

PropertyNames ==
    {Properties[k].name : k \in DOMAIN Properties} \cup {"fully_qualified_schema"}

\* config.<name>, for every property
CallProperty ==
    /\ status = "ready"
    /\ \E name \in PropertyNames :
        call' = Called(name, <<>>, GetProperty(config, name))
    /\ UNCHANGED <<files, status, environment, base_config, env_config, config, notebook>>

CallGetCurrencyPairs ==
    /\ status = "ready"
    /\ call' = Called("get_currency_pairs", <<>>, GetCurrencyPairs(config))
    /\ UNCHANGED <<files, status, environment, base_config, env_config, config, notebook>>

CallGetCurrencySymbols ==
    /\ status = "ready"
    /\ call' = Called("get_currency_symbols", <<>>, GetCurrencySymbols(config))
    /\ UNCHANGED <<files, status, environment, base_config, env_config, config, notebook>>

CallGetCurrencyNames ==
    /\ status = "ready"
    /\ call' = Called("get_currency_names", <<>>, GetCurrencyNames(config))
    /\ UNCHANGED <<files, status, environment, base_config, env_config, config, notebook>>

CallGetSqlParameters ==
    /\ status = "ready"
    /\ call' = Called("get_sql_parameters", <<>>, GetSqlParameters(config))
    /\ UNCHANGED <<files, status, environment, base_config, env_config, config, notebook>>

CallToDict ==
    /\ status = "ready"
    /\ call' = Called("to_dict", <<>>, ToDict(config))
    /\ UNCHANGED <<files, status, environment, base_config, env_config, config, notebook>>

Next ==
    \/ Construct
    \/ CallProperty
    \/ CallGetCurrencyPairs
    \/ CallGetCurrencySymbols
    \/ CallGetCurrencyNames
    \/ CallGetBasePositions
    \/ CallGetCurrencyPair
    \/ CallGetTableName
    \/ CallGetSqlParameters
    \/ CallGet
    \/ CallToDict

Spec == Init /\ [][Next]_vars

---------------------------------------------------------------------------
(* notebooks/generate_positions.py: generate_daily_positions               *)
(*                                                                         *)
(* Fractions are fixed-point integers: a probability and the draw of       *)
(* random.random() are in hundredths, max_deviation and the draw of        *)
(* random.uniform() are in thousandths, a base size is in whole units, the *)
(* computed position_size is in thousandths of a unit and the rounded      *)
(* position_size of a record is in hundredths of a unit.                   *)

MaxGenPairs == 2

\* The pairs of a generation run: two pairs, and EUR/USD again with another
\* size.
GenPairElements ==
    { Pair("EURUSD", "EUR/USD", 1),
      Pair("GBPUSD", "GBP/USD", 100),
      Pair("EURUSD", "EUR/USD", 3) }

GenPairLists == UNION {[1..n -> GenPairElements] : n \in 1..MaxGenPairs}

\* position_generation.random_walk.max_deviation: none, 0.9 %, 20 %
MaxDeviations == {0, 9, 200}

\* (flat_probability, long_probability): the defaults 5 % and 70 %, never
\* flat and always long, always flat, and probabilities that exceed 1.
Probabilities ==
    { [flat |-> 5, long |-> 70], [flat |-> 0, long |-> 100],
      [flat |-> 100, long |-> 0], [flat |-> 60, long |-> 60] }

\* The position_generation section of the configuration.
PositionGeneration(dev, pr) ==
    Dict([desk |-> Str("FX"),
          direction_bias |-> Dict([long_probability |-> Num(pr.long)]),
          flat_probability |-> Num(pr.flat),
          random_walk |-> Dict([max_deviation |-> Num(dev)])])

GenConfigs ==
    { SetPath(WithPairs(l), <<"position_generation">>, PositionGeneration(dev, pr)) :
        l \in GenPairLists, dev \in MaxDeviations, pr \in Probabilities }

\* random.uniform(-max_deviation, max_deviation): a + (b - a) * random(),
\* either end included
Uniform(max_deviation) ==
    {d \in -max_deviation..max_deviation :
        \/ d \in {-max_deviation, max_deviation}
        \/ d \in -9..9}

\* random.random(): a draw of [0, 1)
RandomDraws == {0, 4, 5, 74, 75, 99}

\* round(x, 2) of x thousandths, in hundredths.  The float next to a decimal
\* that ends in 5 thousandths lies on either side of it, so a tie goes
\* either way.
Round2(x) ==
    IF x % 10 < 5 THEN {x \div 10}
    ELSE IF x % 10 > 5 THEN {x \div 10 + 1}
    ELSE {x \div 10, x \div 10 + 1}

\* A direction test that asks for LONG before it asks for FLAT.
DirectionLongFirst(rand_val, flat_prob, long_prob) ==
    IF rand_val < long_prob THEN "LONG"
    ELSE IF rand_val < flat_prob + long_prob THEN "FLAT"
    ELSE "SHORT"

\* if rand_val < flat_prob ... elif rand_val < (flat_prob + long_prob) ... else
Direction(rand_val, flat_prob, long_prob) ==
    IF rand_val < flat_prob THEN "FLAT"
    ELSE IF rand_val < flat_prob + long_prob THEN "LONG"
    ELSE "SHORT"

\* position_size = base_size * (1 + daily_change), 0 when FLAT
PositionSize(base_size, daily_change, direction) ==
    IF direction = "FLAT" THEN 0 ELSE base_size * (1000 + daily_change)

GenStart == [pc |-> "start"]

InitGenerate ==
    /\ files = NoFiles
    /\ status = "ready"
    /\ environment = Str("dev")
    /\ config \in GenConfigs
    /\ base_config = config
    /\ env_config = EmptyDict
    /\ call = NoCall
    /\ notebook = GenStart

\* generate_daily_positions(date, config), up to the loop
GenerateCall ==
    /\ status = "ready"
    /\ notebook.pc = "start"
    /\ LET base_positions == GetBasePositions(config)
           max_deviation ==
               Property(config, <<"position_generation", "random_walk", "max_deviation">>)
           long_prob ==
               Property(config, <<"position_generation", "direction_bias", "long_probability">>)
           flat_prob == Property(config, <<"position_generation", "flat_probability">>)
           desk == Property(config, <<"position_generation", "desk">>)
           raised == FirstRaised(<<base_positions, max_deviation, long_prob, flat_prob, desk>>)
       IN notebook' =
            IF ~raised.ok THEN [pc |-> "raised", exc |-> raised.exc]
            ELSE [pc |-> "loop", positions |-> <<>>,
                  base_positions |-> base_positions.value.val,
                  max_deviation |-> max_deviation.value.val,
                  long_prob |-> long_prob.value.val,
                  flat_prob |-> flat_prob.value.val,
                  desk |-> desk.value, i |-> 1,
                  daily_change |-> 0, rand_val |-> 0, direction |-> ""]
    /\ UNCHANGED <<files, status, environment, base_config, env_config, config, call>>

\* One iteration of `for currency_pair, base_size in base_positions.items()`
GenerateStep ==
    /\ notebook.pc = "loop"
    /\ notebook.i <= Len(notebook.base_positions.keys)
    /\ LET currency_pair == notebook.base_positions.keys[notebook.i]
           base_size == notebook.base_positions.map[currency_pair]
       IN IF base_size.kind # "num"
          THEN notebook' = [pc |-> "raised", exc |-> "TypeError"]
          ELSE \E daily_change \in Uniform(notebook.max_deviation), rand_val \in RandomDraws :
                 LET direction == Direction(rand_val, notebook.flat_prob, notebook.long_prob)
                     position_size == PositionSize(base_size.val, daily_change, direction)
                 IN \E rounded \in Round2(position_size) :
                      notebook' =
                        [notebook EXCEPT
                           !.daily_change = daily_change,
                           !.rand_val = rand_val,
                           !.direction = direction,
                           !.i = @ + 1,
                           !.positions =
                              Append(@, [date |-> "date",
                                         currency_pair |-> currency_pair,
                                         position_size |-> rounded,
                                         direction |-> direction,
                                         desk |-> notebook.desk])]
    /\ UNCHANGED <<files, status, environment, base_config, env_config, config, call>>

\* return pd.DataFrame(positions)
GenerateReturn ==
    /\ notebook.pc = "loop"
    /\ notebook.i > Len(notebook.base_positions.keys)
    /\ notebook' = [notebook EXCEPT !.pc = "returned"]
    /\ UNCHANGED <<files, status, environment, base_config, env_config, config, call>>

NextGenerate ==
    \/ GenerateCall
    \/ GenerateStep
    \/ GenerateReturn

SpecGenerate == InitGenerate /\ [][NextGenerate]_vars

---------------------------------------------------------------------------
(* notebooks/extract_fx_rates.py: the extraction loop and its summary.    *)
(* The dates of the range come from the silver table and the clock and     *)
(* only appear in the URL and the file names; they are left out.           *)

MaxExtractPairs == 3

\* Elements of currencies.pairs of an extraction run: two pairs, and a pair
\* without a symbol.
ExtractPairElements == {EURUSD, GBPUSD, Dict([name |-> Str("USD/JPY")])}

ExtractPairLists == UNION {[1..n -> ExtractPairElements] : n \in 1..MaxExtractPairs}

\* The api and storage sections of the configuration: with the base URL of
\* the API, and without it.
ApiSections ==
    { Dict([polygon |-> Dict([base_url |-> Str("https://api")])]),
      Dict([polygon |-> EmptyDict]) }

ExtractConfigs ==
    { SetPath(SetPath(WithPairs(l), <<"api">>, api),
              <<"storage", "raw_data", "fx_rates">>, Str("/mnt/raw")) :
        l \in ExtractPairLists, api \in ApiSections }

\* How the request and the write of one pair end: the response is written,
\* requests.get raises (a timeout, a refused connection), raise_for_status
\* raises for an HTTP error status, write_text raises.
Attempts == {"written", "ConnectionError", "HTTPError", "OSError"}

\* The exceptions that are requests.exceptions.RequestException.
RequestExceptions == {"ConnectionError", "HTTPError"}

ExtractStart == [pc |-> "start"]

InitExtract ==
    /\ files = NoFiles
    /\ status = "ready"
    /\ environment = Str("dev")
    /\ config \in ExtractConfigs
    /\ base_config = config
    /\ env_config = EmptyDict
    /\ call = NoCall
    /\ notebook = ExtractStart

\* output_dir, currency_pairs, successful_downloads = 0, failed_downloads = []
ExtractSetup ==
    /\ status = "ready"
    /\ notebook.pc = "start"
    /\ LET output_dir == GetProperty(config, "fx_rates_raw_path")
           currency_pairs == GetCurrencySymbols(config)
           raised == FirstRaised(<<output_dir, currency_pairs>>)
       IN notebook' =
            IF ~raised.ok THEN [pc |-> "raised", exc |-> raised.exc]
            ELSE [pc |-> "loop", i |-> 1,
                  currency_pairs |-> currency_pairs.value.val,
                  successful_downloads |-> 0,
                  failed_downloads |-> <<>>,
                  written |-> <<>>,
                  stdout |-> <<>>]
    /\ UNCHANGED <<files, status, environment, base_config, env_config, config, call>>

\* The body of the try: the exception it raises, or "written".
TryPair(url, attempt) == IF ~url.ok THEN url.exc ELSE attempt

\* A loop that stops at the first pair that fails.
ExtractStepAborting ==
    /\ notebook.pc = "loop"
    /\ notebook.i <= Len(notebook.currency_pairs)
    /\ \E attempt \in Attempts :
        LET pair == notebook.currency_pairs[notebook.i]
            end == TryPair(GetProperty(config, "polygon_base_url"), attempt)
        IN notebook' =
             IF end = "written"
             THEN [notebook EXCEPT !.i = @ + 1,
                                   !.written = Append(@, pair),
                                   !.successful_downloads = @ + 1,
                                   !.stdout = Append(@, <<"Downloaded", pair>>)]
             ELSE [notebook EXCEPT !.i = Len(notebook.currency_pairs) + 1,
                                   !.failed_downloads = Append(@, pair),
                                   !.stdout = Append(@, <<"Failed to download", pair>>)]
    /\ UNCHANGED <<files, status, environment, base_config, env_config, config, call>>

\* One iteration of `for pair in currency_pairs`
ExtractStep ==
    /\ notebook.pc = "loop"
    /\ notebook.i <= Len(notebook.currency_pairs)
    /\ \E attempt \in Attempts :
        LET pair == notebook.currency_pairs[notebook.i]
            end == TryPair(GetProperty(config, "polygon_base_url"), attempt)
        IN notebook' =
             IF end = "written"
             THEN [notebook EXCEPT !.i = @ + 1,
                                   !.written = Append(@, pair),
                                   !.successful_downloads = @ + 1,
                                   !.stdout = Append(@, <<"Downloaded", pair>>)]
             ELSE IF end \in RequestExceptions
             THEN [notebook EXCEPT !.i = @ + 1,
                                   !.failed_downloads = Append(@, pair),
                                   !.stdout = Append(@, <<"Failed to download", pair>>)]
             ELSE [notebook EXCEPT !.i = @ + 1,
                                   !.failed_downloads = Append(@, pair),
                                   !.stdout = Append(@, <<"Error processing", pair>>)]
    /\ UNCHANGED <<files, status, environment, base_config, env_config, config, call>>

\* The summary cell: raises when a pair failed.
ExtractSummary ==
    /\ notebook.pc = "loop"
    /\ notebook.i > Len(notebook.currency_pairs)
    /\ notebook' =
         [notebook EXCEPT !.pc = IF notebook.failed_downloads # <<>> THEN "failed"
                                 ELSE "completed"]
    /\ UNCHANGED <<files, status, environment, base_config, env_config, config, call>>

NextExtract ==
    \/ ExtractSetup
    \/ ExtractStep
    \/ ExtractSummary

SpecExtract == InitExtract /\ [][NextExtract]_vars

---------------------------------------------------------------------------
(* Reading a document along a key path *)

Missing == V("missing", "missing")

RECURSIVE ValueAt(_, _)
\* The value a chain of mapping keys leads to, Missing when the chain breaks.
ValueAt(doc, p) ==
    IF p = <<>> THEN doc
    ELSE IF HasKey(doc, Head(p)) THEN ValueAt(doc.val[Head(p)], Tail(p))
    ELSE Missing

Visible(doc, p) == ValueAt(doc, p) # Missing


\* Paths one level deeper than the documents go, so that every key is covered.
ProbePaths == MergePaths \cup {Append(p, k) : p \in MergePaths, k \in MergeKeys}

\* The key p ends in is a key of a mapping of base and of the mapping of
\* override at the same place, and so at every level above it.
SharedKey(base, override, p) == Visible(base, p) /\ Visible(override, p)

\* The merge reached the place of p: both documents hold mappings all the
\* way down to p's parent.
MergedLevel(base, override, p) ==
    \A n \in 0..(Len(p) - 1) :
        IsDict(ValueAt(base, SubSeq(p, 1, n))) /\ IsDict(ValueAt(override, SubSeq(p, 1, n)))

---------------------------------------------------------------------------
(* C1 *)

\* C1: at every key present in both documents, at every depth, the merged
\* value is the merge of the two values when both are mappings (a mapping
\* over the keys of both, equal to _deep_merge of the two) and exactly the
\* override's value otherwise; the two literal examples of the claim hold.
C1_SharedKeyMerged ==
    /\ status = "merged" =>
        \A p \in ProbePaths :
            SharedKey(base_config, env_config, p) =>
                LET b == ValueAt(base_config, p)
                    o == ValueAt(env_config, p)
                    m == ValueAt(config, p)
                IN IF IsDict(b) /\ IsDict(o)
                   THEN /\ IsDict(m)
                        /\ DOMAIN m.val = (DOMAIN b.val) \cup (DOMAIN o.val)
                        /\ m = DeepMerge(b, o)
                   ELSE m = o
    /\ DeepMerge(Dict([a |-> Dict([b |-> Num(1), c |-> Num(2)])]),
                 Dict([a |-> Dict([b |-> Num(9)])]))
         = Dict([a |-> Dict([b |-> Num(9), c |-> Num(2)])])
    /\ DeepMerge(Dict([a |-> Dict([b |-> Num(1)])]), Dict([a |-> Num(5)]))
         = Dict([a |-> Num(5)])

\* A merge two levels down met a mapping in base and a scalar in override,
\* next to a key of base alone.
C1_Witness ==
    /\ status = "merged"
    /\ IsDict(ValueAt(base_config, <<"a", "b">>))
    /\ ValueAt(env_config, <<"a", "b">>) = Num(9)
    /\ ValueAt(base_config, <<"a", "a">>) = Num(1)
    /\ ValueAt(config, <<"a", "b">>) = Num(9)
    /\ ValueAt(config, <<"a", "a">>) = Num(1)

---------------------------------------------------------------------------
(* C2 *)

\* C2 as claimed: every key path visible in base or in override is visible
\* in the merged document.
C2_EveryPathVisible ==
    status = "merged" =>
        \A p \in ProbePaths :
            (Visible(base_config, p) \/ Visible(env_config, p)) => Visible(config, p)

\* The override holds a non-mapping somewhere strictly above p.
Shadowed(override, p) ==
    \E n \in 1..(Len(p) - 1) :
        LET o == ValueAt(override, SubSeq(p, 1, n))
        IN o # Missing /\ ~IsDict(o)

\* C2, amended: every key path visible in override is visible in the merged
\* document, and so is every key path visible in base unless the override
\* holds a non-mapping value at a proper prefix of it (that value replaces
\* the base's mapping, with the keys under it); a key that only one of the
\* two merged mappings holds keeps its value unchanged.
C2_PathsVisibleUnlessShadowed ==
    status = "merged" =>
        \A p \in ProbePaths :
            /\ Visible(env_config, p) => Visible(config, p)
            /\ Visible(base_config, p) =>
                  (Visible(config, p) <=> ~Shadowed(env_config, p))
            /\ MergedLevel(base_config, env_config, p) =>
                  /\ (Visible(base_config, p) /\ ~Visible(env_config, p))
                        => ValueAt(config, p) = ValueAt(base_config, p)
                  /\ (Visible(env_config, p) /\ ~Visible(base_config, p))
                        => ValueAt(config, p) = ValueAt(env_config, p)

\* One level down, a key of base alone next to a key of override alone.
C2_Witness ==
    /\ status = "merged"
    /\ Visible(base_config, <<"a", "a">>) /\ ~Visible(env_config, <<"a", "a">>)
    /\ Visible(env_config, <<"a", "b">>) /\ ~Visible(base_config, <<"a", "b">>)
    /\ ValueAt(config, <<"a", "a">>) = ValueAt(base_config, <<"a", "a">>)
    /\ ValueAt(config, <<"a", "b">>) = ValueAt(env_config, <<"a", "b">>)

---------------------------------------------------------------------------
(* C3 *)

\* needle occurs in text, both token sequences
Mentions(text, needle) ==
    \E i \in 0..(Len(text) - Len(needle)) : SubSeq(text, i + 1, i + Len(needle)) = needle

Constructed == call.op = "__init__"

\* __init__ got as far as the merged configuration.
Merged == Constructed /\ config # Unset

AbsentRules(cfg) == {i \in DOMAIN required_fields : ~Visible(cfg, required_fields[i])}

FirstAbsent(cfg) ==
    required_fields[CHOOSE i \in AbsentRules(cfg) : \A j \in AbsentRules(cfg) : i <= j]

\* C3: whenever a required dotted path is absent from the merged
\* configuration, construction fails with a ConfigurationError whose message
\* names the first absent path in declaration order.
C3_AbsentPathIsConfigurationError ==
    (Merged /\ AbsentRules(config) # {}) =>
        /\ call.raised
        /\ call.exc = ConfigurationError
        /\ Mentions(call.msg, DotJoin(FirstAbsent(config)))

---------------------------------------------------------------------------
(* C4 *)

\* C4: an instance is returned exactly when construction did not raise, and
\* then every required dotted path is a chain of mapping keys of the merged
\* configuration and currencies.pairs is a non-empty list.
C4_InstanceIsValid ==
    /\ (status = "ready") <=>
          ((Constructed /\ ~call.raised) \/ call.op \notin {"none", "__init__"})
    /\ status = "ready" =>
        /\ AbsentRules(config) = {}
        /\ IsList(ValueAt(config, <<"currencies", "pairs">>))
        /\ Len(ValueAt(config, <<"currencies", "pairs">>).val) > 0

---------------------------------------------------------------------------
(* C5 *)

\* Construction stopped at the environment check.
EnvironmentRejected ==
    /\ Constructed
    /\ call.raised
    /\ Len(call.msg) >= Len(InvalidEnvHead)
    /\ SubSeq(call.msg, 1, Len(InvalidEnvHead)) = InvalidEnvHead

\* l is the lowercase form of the string s.
IsLowerOf(l, s) ==
    /\ Len(l) = Len(s)
    /\ \A i \in DOMAIN s :
          \/ \E k \in DOMAIN Uppers : Uppers[k] = s[i] /\ Lowers[k] = l[i]
          \/ l[i] = s[i] /\ \A k \in DOMAIN Uppers : Uppers[k] # s[i]

\* C5 as claimed: the message of the rejection mentions the environment
\* value that was given.
C5_MessageMentionsGivenValue ==
    EnvironmentRejected => Mentions(call.msg, call.args[1])

\* C5, amended: the environment is accepted exactly when its lowercase form
\* is 'dev' or 'prod', and is stored lowercased; any other value fails with a
\* ConfigurationError whose message mentions the lowercase form of the value.
C5_EnvironmentLowercased ==
    Constructed =>
        LET arg == call.args[1]
            valid == \E l \in {<<"d", "e", "v">>, <<"p", "r", "o", "d">>} : IsLowerOf(l, arg)
        IN /\ EnvironmentRejected <=> ~valid
           /\ EnvironmentRejected =>
                /\ call.exc = ConfigurationError
                /\ \E n \in 0..Len(call.msg), m \in 0..Len(call.msg) :
                      IsLowerOf(SubSeq(call.msg, n + 1, m), arg)
           /\ valid => environment.kind = "str" /\ environment.val \in {"dev", "prod"}
           /\ status = "ready" => valid

\* 'Staging' was rejected with a message that spells it 'staging'.
C5_Witness ==
    /\ EnvironmentRejected
    /\ call.args[1] = <<"S", "t", "a", "g", "i", "n", "g">>
    /\ Mentions(call.msg, <<"s", "t", "a", "g", "i", "n", "g">>)

---------------------------------------------------------------------------
(* C6 *)

\* C6: with every required path present, a currencies.pairs that is not a
\* list fails with the ConfigurationError "must be a list", also when it is
\* empty (an empty mapping or string), and an empty list fails with the
\* ConfigurationError "cannot be empty", a different message.
C6_PairsTypeBeforeEmptiness ==
    /\ NotAListMsg # EmptyPairsMsg
    /\ (Merged /\ AbsentRules(config) = {}) =>
        LET pairs == ValueAt(config, <<"currencies", "pairs">>)
        IN /\ ~IsList(pairs) =>
                call.raised /\ call.exc = ConfigurationError /\ call.msg = NotAListMsg
           /\ (IsList(pairs) /\ Len(pairs.val) = 0) =>
                call.raised /\ call.exc = ConfigurationError /\ call.msg = EmptyPairsMsg

\* An empty string for currencies.pairs was reported as not a list.
C6_Witness ==
    /\ Merged
    /\ AbsentRules(config) = {}
    /\ ValueAt(config, <<"currencies", "pairs">>) = Str("")
    /\ call.msg = NotAListMsg

---------------------------------------------------------------------------
(* C7 *)

\* C7: get_table_name(layer, table) returns "{catalog}.{schema}.{table name}"
\* when layers[layer][table] exists and raises ConfigurationError when the
\* layers section, the layer or the table is absent.
C7_TableNameOrConfigurationError ==
    /\ GetTableName(Template, "silver", "fx_rates") = Ok(Str("c.s.fx_rates"))
    /\ call.op = "get_table_name" =>
        LET name == ValueAt(config, <<"layers", call.args[1], call.args[2]>>)
        IN IF name # Missing
           THEN /\ ~call.raised
                /\ call.value =
                     Str(Format(ValueAt(config, <<"databricks", "catalog">>)) \o "."
                         \o Format(ValueAt(config, <<"databricks", "schema">>)) \o "."
                         \o Format(name))
           ELSE call.raised /\ call.exc = ConfigurationError

---------------------------------------------------------------------------
(* C8 *)

\* The segments of a key path: the dot-free strings that, joined with dots,
\* spell it.
SegmentsOf(key_path) ==
    CHOOSE segs \in UNION {[1..n -> GetSegments] : n \in 1..MaxSegs} :
        DotJoin(segs) = key_path

\* C8: get(path, default) never raises; it returns the value at the end of
\* the path when every segment is a key of the mapping the segments before
\* it lead to, and default otherwise.
C8_GetNeverRaises ==
    call.op = "get" =>
        LET segs == SegmentsOf(call.args[1])
            default == call.args[2]
            present == \A n \in 1..Len(segs) :
                           HasKey(ValueAt(config, SubSeq(segs, 1, n - 1)), segs[n])
        IN /\ ~call.raised
           /\ present => call.value = ValueAt(config, segs)
           /\ ~present => call.value = default

\* A path that runs into a string before its end got the default.
C8_Witness ==
    /\ call.op = "get"
    /\ call.args[1] = <<"databricks", ".", "catalog", ".", "catalog">>
    /\ ValueAt(config, <<"databricks", "catalog">>).kind = "str"
    /\ call.value = call.args[2]

---------------------------------------------------------------------------
(* C9 *)

PairsList == ValueAt(config, <<"currencies", "pairs">>).val

\* The i-th pair is a mapping with a symbol field.
HasSymbol(i) == HasKey(PairsList[i], "symbol")

Matches(i, symbol) == HasSymbol(i) /\ PairsList[i].val["symbol"] = symbol

\* C9 as claimed: get_currency_pair never raises, and returns the first pair
\* whose symbol equals the argument, None when there is none.
C9_PairNeverRaises ==
    call.op = "get_currency_pair" =>
        LET symbol == call.args[1]
            hits == {i \in DOMAIN PairsList : Matches(i, symbol)}
        IN /\ ~call.raised
           /\ hits = {} => call.value = None
           /\ hits # {} =>
                call.value = PairsList[CHOOSE i \in hits : \A j \in hits : i <= j]

\* C9, amended: get_currency_pair returns the first pair whose symbol equals
\* the argument, and None when no pair matches, without raising, provided
\* every element it has to inspect (up to the first match, all of them when
\* there is no match) is a mapping with a symbol field; it raises KeyError
\* or TypeError when it meets an element that is not, before any match.
C9_PairUnlessMalformed ==
    call.op = "get_currency_pair" =>
        LET symbol == call.args[1]
            hits == {i \in DOMAIN PairsList : Matches(i, symbol)}
            bad == {i \in DOMAIN PairsList : ~HasSymbol(i)}
            stopped == \E i \in bad : \A j \in hits : i < j
        IN /\ call.raised <=> stopped
           /\ call.raised => call.exc \in {"KeyError", "TypeError"}
           /\ (~stopped /\ hits = {}) => call.value = None
           /\ (~stopped /\ hits # {}) =>
                call.value = PairsList[CHOOSE i \in hits : \A j \in hits : i <= j]

\* The first of two pairs of the same symbol was returned.
C9_Witness ==
    /\ call.op = "get_currency_pair"
    /\ Len(PairsList) = 2
    /\ Matches(1, call.args[1]) /\ Matches(2, call.args[1])
    /\ PairsList[1] # PairsList[2]
    /\ call.value = PairsList[1]

---------------------------------------------------------------------------
(* C10 *)

\* C10: when get_base_positions returns, the keys of the mapping are exactly
\* the names in currencies.pairs, and each name maps to the
\* base_position_size of the last pair of that name; the pairs of the claim's
\* example give {EUR/USD: 15000000, GBP/USD: 8000000}.
C10_BasePositionsLastWins ==
    /\ (GetBasePositions(Template)).value.val.map
          = [n \in {Str("EUR/USD"), Str("GBP/USD")} |->
                IF n = Str("EUR/USD") THEN Num(15000000) ELSE Num(8000000)]
    /\ (call.op = "get_base_positions" /\ ~call.raised) =>
        LET d == call.value.val.map
            nameOf(i) == ValueAt(PairsList[i], <<"name">>)
        IN /\ DOMAIN d = {nameOf(i) : i \in DOMAIN PairsList}
           /\ \A n \in DOMAIN d :
                LET last == CHOOSE i \in DOMAIN PairsList :
                                /\ nameOf(i) = n
                                /\ \A j \in DOMAIN PairsList : nameOf(j) = n => j <= i
                IN d[n] = ValueAt(PairsList[last], <<"base_position_size">>)

\* Two pairs of one name and different sizes gave the second size.
C10_Witness ==
    /\ call.op = "get_base_positions"
    /\ ~call.raised
    /\ Len(PairsList) = 2
    /\ ValueAt(PairsList[1], <<"name">>) = ValueAt(PairsList[2], <<"name">>)
    /\ ValueAt(PairsList[1], <<"base_position_size">>)
          # ValueAt(PairsList[2], <<"base_position_size">>)
    /\ call.value.val.map[ValueAt(PairsList[2], <<"name">>)]
          = ValueAt(PairsList[2], <<"base_position_size">>)

---------------------------------------------------------------------------
(* generate_daily_positions *)

\* The loop of generate_daily_positions has begun.
Generating == notebook.pc \in {"loop", "returned"}

GenKeys == notebook.base_positions.keys

C12_SizeWithinBand ==
    Generating =>
        \A k \in DOMAIN notebook.positions :
            LET record == notebook.positions[k]
                base_size == notebook.base_positions.map[record.currency_pair].val
            IN IF record.direction = "FLAT" THEN record.position_size = 0
               ELSE /\ base_size * (1000 - notebook.max_deviation) <= record.position_size * 10
                    /\ record.position_size * 10 <= base_size * (1000 + notebook.max_deviation)

---------------------------------------------------------------------------
(* _deep_merge with an empty override *)

\* C13: for every base mapping, _deep_merge(base, {}) equals base.
C13_EmptyOverrideIsIdentity ==
    /\ DeepMerge(Template, EmptyDict) = Template
    /\ (status = "merged" /\ env_config = EmptyDict) => config = base_config

\* A base of nested mappings three levels deep was merged with {}.
C13_Witness ==
    /\ status = "merged"
    /\ env_config = EmptyDict
    /\ Visible(base_config, <<"a", "b", "a">>)
    /\ Visible(base_config, <<"b">>)

---------------------------------------------------------------------------
(* The steps of construction *)

\* The file that __init__ reads for the override.
EnvFile == environment.val \o ".yaml"

FileState(filename) ==
    IF filename \in DOMAIN files THEN files[filename] ELSE FileMissing

\* The file is absent or is not YAML.
Unreadable(filename) == FileState(filename).st \in {"missing", "invalid"}

\* What _load_yaml reports for an absent file or one that is not YAML.
ReadError(filename) ==
    IF FileState(filename).st = "missing"
    THEN Err(ConfigurationError, FileNotFoundMsg(filename))
    ELSE Err(ConfigurationError, ParseErrorMsg(filename))

RaisedAs(res) ==
    /\ call.raised
    /\ call.exc = res.exc
    /\ call.msg = res.msg

\* The file holds a document that is neither empty (null) nor a mapping.
NotAMapping(filename) ==
    /\ FileState(filename).st = "ok"
    /\ FileState(filename).doc.kind \notin {"none", "dict"}

\* The file holds an empty (null) document or an empty mapping.
EmptyDocument(filename) ==
    /\ FileState(filename).st = "ok"
    /\ FileState(filename).doc \in {None, EmptyDict}

\* C14: construction checks the environment, loads pipeline_config.yaml,
\* loads {environment}.yaml, merges and validates, in that order, and stops
\* at the first step that fails with a ConfigurationError for that step: an
\* invalid environment is reported whatever the files hold, an absent or
\* unparsable base file whatever the override file holds, an absent or
\* unparsable override file before any required field.  An empty or null
\* document is loaded as an empty mapping, and a document that parses to
\* something other than a mapping is reported as a ConfigurationError.
C14_StepsInOrderAsConfigurationError ==
    Constructed =>
        /\ call.raised => call.exc = ConfigurationError
        /\ IF environment.val \notin {"dev", "prod"}
           THEN RaisedAs(Err(ConfigurationError, InvalidEnvMsg(Lower(call.args[1]))))
           ELSE IF Unreadable(BaseFile) THEN RaisedAs(ReadError(BaseFile))
           ELSE IF Unreadable(EnvFile) THEN RaisedAs(ReadError(EnvFile))
           ELSE /\ EmptyDocument(BaseFile) => base_config = EmptyDict
                /\ EmptyDocument(EnvFile) => env_config = EmptyDict
                /\ (NotAMapping(BaseFile) \/ NotAMapping(EnvFile))
                      => (call.raised /\ call.exc = ConfigurationError)

---------------------------------------------------------------------------
(* The accessors and the configuration *)

\* The operations that read the configuration after construction.
Accessors ==
    PropertyNames \cup
    {"get_currency_pairs", "get_currency_symbols", "get_currency_names",
     "get_base_positions", "get_currency_pair", "get_table_name",
     "get_sql_parameters", "get", "to_dict"}

\* C15: after construction succeeded, whatever accessors were called since
\* and whether they returned or raised, the merged configuration, the loaded
\* base document and the loaded override document are those that
\* construction left, from the files it read.
C15_AccessorsLeaveConfiguration ==
    status = "ready" =>
        /\ call.op \in Accessors \cup {"__init__"}
        /\ \E arg \in EnvArgs :
              LET built == InitObject(arg, files)
              IN /\ built.result.ok
                 /\ environment = built.environment
                 /\ base_config = built.base_config
                 /\ env_config = built.env_config
                 /\ config = built.config

\* An accessor raised on a constructed object whose override document is
\* not empty.
C15_Witness ==
    /\ status = "ready"
    /\ call.op = "get_sql_parameters"
    /\ call.raised
    /\ env_config # EmptyDict
    /\ config # base_config

---------------------------------------------------------------------------
(* The extraction loop *)

\* The loop of the extraction has begun.
Extracting == notebook.pc \in {"loop", "completed", "failed"}

\* The symbols of currencies.pairs, in declared order.
ConfiguredSymbols ==
    [k \in DOMAIN config.val["currencies"].val["pairs"].val |->
        config.val["currencies"].val["pairs"].val[k].val["symbol"]]

Succeeded(line) == line[1] = "Downloaded"

PairOf(line) == line[2]

RECURSIVE PairsOfLines(_)
PairsOfLines(lines) ==
    IF lines = <<>> THEN <<>> ELSE <<PairOf(Head(lines))>> \o PairsOfLines(Tail(lines))

\* C16: one pair's failure does not abort the batch.  The attempts made so
\* far (one line of output each) are those of the first symbols of the
\* configuration, one per symbol, in declared order; an attempt that
\* succeeded was counted in successful_downloads and one that failed was
\* appended to failed_downloads, never both; and when the loop is over
\* every symbol was attempted, so successful_downloads +
\* len(failed_downloads) is the number of configured symbols.
C16_EveryPairAttemptedOnce ==
    Extracting =>
        LET attempted == notebook.stdout
        IN /\ notebook.currency_pairs = ConfiguredSymbols
           /\ Len(attempted) <= Len(notebook.currency_pairs)
           /\ PairsOfLines(attempted) = SubSeq(notebook.currency_pairs, 1, Len(attempted))
           /\ notebook.successful_downloads = Len(SelectSeq(attempted, Succeeded))
           /\ notebook.failed_downloads =
                 PairsOfLines(SelectSeq(attempted, LAMBDA line : ~Succeeded(line)))
           /\ notebook.successful_downloads + Len(notebook.failed_downloads) = Len(attempted)
           /\ notebook.pc \in {"completed", "failed"} =>
                 /\ Len(attempted) = Len(notebook.currency_pairs)
                 /\ notebook.successful_downloads + Len(notebook.failed_downloads)
                       = Len(ConfiguredSymbols)

\* The loop is over: the first of three pairs failed and the two after it
\* were downloaded.
C16_Witness ==
    /\ notebook.pc = "failed"
    /\ Len(notebook.currency_pairs) = 3
    /\ notebook.failed_downloads = <<notebook.currency_pairs[1]>>
    /\ notebook.successful_downloads = 2

=============================================================================
